---- MODULE Spec2Model ----
(***************************************************************************)
(* Model of the LETSknow chat endpoint (api/chat.js): the request handler  *)
(* with its cookie parsing, variant resolution, static reply cache, prompt *)
(* assembly, upstream completion call and response shaping.                *)
(*                                                                         *)
(* Text is modelled as a sequence of one-character strings, so that        *)
(* splitting, trimming, lower-casing, URL-decoding and numeric conversion  *)
(* are computed character by character as the JavaScript built-ins do.     *)
(***************************************************************************)
EXTENDS Integers, Sequences, FiniteSets, TLC

(***************************************************************************)
(* JavaScript values, tagged by type.  A property that is absent from an   *)
(* object reads as undefined, so an object is a record whose missing       *)
(* properties hold Undefined.                                              *)
(***************************************************************************)
Undefined == [t |-> "undefined"]
Null == [t |-> "null"]
Str(s) == [t |-> "string", s |-> s]
Num(n) == [t |-> "number", n |-> n]
Arr(a) == [t |-> "array", a |-> a]
Obj(f) == [t |-> "object", f |-> f]

\* Property read obj[k] / obj.k on a value that is not null or undefined.
Prop(v, k) ==
    IF v.t = "object" /\ k \in DOMAIN v.f THEN v.f[k] ELSE Undefined

\* Indexed read v[0] on a value that is not null or undefined: the first
\* element of a non-empty array, the first character of a non-empty string,
\* the property named "0" of any other object.
Index0(v) ==
    IF v.t = "array" /\ Len(v.a) > 0 THEN v.a[1]
    ELSE IF v.t = "string" /\ "s" \in DOMAIN v /\ Len(v.s) > 0 THEN Str(<<v.s[1]>>)
    ELSE Prop(v, "0")

Nullish(v) == v.t \in {"undefined", "null"}

\* ToBoolean.  A number is an integer n, NaN, or another non-zero number; a
\* string is a character sequence s or a non-empty literal of the source.
Truthy(v) ==
    CASE v.t = "undefined" -> FALSE
      [] v.t = "null" -> FALSE
      [] v.t = "string" -> IF "s" \in DOMAIN v THEN v.s # <<>> ELSE TRUE
      [] v.t = "number" -> IF "n" \in DOMAIN v THEN v.n # 0 ELSE "other" \in DOMAIN v
      [] OTHER -> TRUE

(***************************************************************************)
(* Characters.  A character outside ASCII is one of four symbols, by what  *)
(* trim and toLowerCase make of it: NonAsciiWS (a Unicode white-space or   *)
(* line-terminator character), Kelvin (U+212A, whose lower case is the     *)
(* ASCII letter k), DottedI (U+0130, whose lower case is the ASCII letter  *)
(* i followed by the combining dot U+0307) or NonAscii (any other: its     *)
(* lower case is again one character of that kind).  The vertical tab, the *)
(* remaining control characters and the grave accent are the symbols VT,   *)
(* Ctl and Grave.                                                          *)
(***************************************************************************)
NonAsciiWS == "\\uWS"
NonAscii == "\\u"
Kelvin == "\\u212A"
DottedI == "\\u0130"
VT == "\\v"
Ctl == "\\x"
\* The grave accent (code 96), which a TLA+ string cannot hold.
Grave == "\\x60"

\* White space and line terminators, as String.prototype.trim and
\* StringToNumber strip them.
WhiteSpace == {" ", "\t", "\n", "\f", "\r", VT, NonAsciiWS}

Digits == {"0", "1", "2", "3", "4", "5", "6", "7", "8", "9"}

HexVal ==
    "0" :> 0 @@ "1" :> 1 @@ "2" :> 2 @@ "3" :> 3 @@ "4" :> 4 @@ "5" :> 5 @@ "6" :> 6 @@ "7" :> 7 @@
    "8" :> 8 @@ "9" :> 9 @@ "a" :> 10 @@ "b" :> 11 @@ "c" :> 12 @@ "d" :> 13 @@ "e" :> 14 @@ "f" :> 15 @@
    "A" :> 10 @@ "B" :> 11 @@ "C" :> 12 @@ "D" :> 13 @@ "E" :> 14 @@ "F" :> 15

LowerOf ==
    "A" :> "a" @@ "B" :> "b" @@ "C" :> "c" @@ "D" :> "d" @@ "E" :> "e" @@ "F" :> "f" @@ "G" :> "g" @@
    "H" :> "h" @@ "I" :> "i" @@ "J" :> "j" @@ "K" :> "k" @@ "L" :> "l" @@ "M" :> "m" @@ "N" :> "n" @@
    "O" :> "o" @@ "P" :> "p" @@ "Q" :> "q" @@ "R" :> "r" @@ "S" :> "s" @@ "T" :> "t" @@ "U" :> "u" @@
    "V" :> "v" @@ "W" :> "w" @@ "X" :> "x" @@ "Y" :> "y" @@ "Z" :> "z"

\* The printable ASCII characters, code 32 to 126.
AsciiPrintable == <<
    " ", "!", "\"", "#", "$", "%", "&", "'", "(", ")", "*", "+", ",", "-", ".", "/",
    "0", "1", "2", "3", "4", "5", "6", "7", "8", "9", ":", ";", "<", "=", ">", "?",
    "@", "A", "B", "C", "D", "E", "F", "G", "H", "I", "J", "K", "L", "M", "N", "O",
    "P", "Q", "R", "S", "T", "U", "V", "W", "X", "Y", "Z", "[", "\\", "]", "^", "_",
    Grave, "a", "b", "c", "d", "e", "f", "g", "h", "i", "j", "k", "l", "m", "n", "o",
    "p", "q", "r", "s", "t", "u", "v", "w", "x", "y", "z", "{", "|", "}", "~" >>

RECURSIVE TrimStart(_)
TrimStart(s) ==
    IF s # <<>> /\ Head(s) \in WhiteSpace THEN TrimStart(Tail(s)) ELSE s

RECURSIVE TrimEnd(_)
TrimEnd(s) ==
    IF s # <<>> /\ s[Len(s)] \in WhiteSpace
    THEN TrimEnd(SubSeq(s, 1, Len(s) - 1))
    ELSE s

\* String.prototype.trim
trim(s) == TrimEnd(TrimStart(s))

\* The lower case of one character: one character, two for U+0130.
LowerChar(c) ==
    IF c \in DOMAIN LowerOf THEN <<LowerOf[c]>>
    ELSE IF c = Kelvin THEN <<"k">>
    ELSE IF c = DottedI THEN <<"i", NonAscii>>
    ELSE <<c>>

\* String.prototype.toLowerCase
RECURSIVE toLowerCase(_)
toLowerCase(s) ==
    IF s = <<>> THEN <<>> ELSE LowerChar(Head(s)) \o toLowerCase(Tail(s))

\* Position of the first character of s that is in seps, 0 when none is.
IndexOfAny(s, seps) ==
    IF \E i \in 1..Len(s) : s[i] \in seps
    THEN CHOOSE i \in 1..Len(s) : s[i] \in seps /\ \A j \in 1..(i - 1) : s[j] \notin seps
    ELSE 0

\* String.prototype.split on a one-character separator: "" splits to [""].
RECURSIVE split(_, _)
SplitAt(s, sep, i) ==
    IF i = 0 THEN <<s>>
    ELSE <<SubSeq(s, 1, i - 1)>> \o split(SubSeq(s, i + 1, Len(s)), sep)

split(s, sep) == SplitAt(s, sep, IndexOfAny(s, {sep}))

\* Array.prototype.join on an array of strings.
RECURSIVE join(_, _)
join(parts, sep) ==
    IF parts = <<>> THEN <<>>
    ELSE IF Len(parts) = 1 THEN parts[1]
    ELSE parts[1] \o <<sep>> \o join(Tail(parts), sep)

(***************************************************************************)
(* decodeURIComponent.  The result is [ok, s]: ok is FALSE when the call   *)
(* throws URIError.                                                        *)
(***************************************************************************)
URIError == [ok |-> FALSE, s |-> <<>>]

\* The byte the escape %XY at position k of s denotes; -1 when s holds no
\* well-formed escape there.
EscapeByte(s, k) ==
    IF k + 2 <= Len(s) /\ s[k] = "%"
       /\ s[k + 1] \in DOMAIN HexVal /\ s[k + 2] \in DOMAIN HexVal
    THEN 16 * HexVal[s[k + 1]] + HexVal[s[k + 2]]
    ELSE -1

CharOfByte(b) ==
    CASE b \in 32..126 -> AsciiPrintable[b - 31]
      [] b = 9 -> "\t"
      [] b = 10 -> "\n"
      [] b = 11 -> VT
      [] b = 12 -> "\f"
      [] b = 13 -> "\r"
      [] OTHER -> Ctl

\* Length of the UTF-8 sequence a lead byte >= 128 opens; 0 for a byte that
\* opens none (a continuation byte, an overlong lead C0/C1, or above F4).
Utf8Length(b) ==
    IF b \in 194..223 THEN 2
    ELSE IF b \in 224..239 THEN 3
    ELSE IF b \in 240..244 THEN 4
    ELSE 0

RECURSIVE Utf8Bits(_, _)
Utf8Bits(conts, acc) ==
    IF conts = <<>> THEN acc
    ELSE Utf8Bits(Tail(conts), acc * 64 + (Head(conts) - 128))

CodePoint(b, conts) ==
    Utf8Bits(conts,
             IF Len(conts) = 1 THEN b - 192
             ELSE IF Len(conts) = 2 THEN b - 224
             ELSE b - 240)

ValidCodePoint(n, cp) ==
    CASE n = 2 -> cp >= 128
      [] n = 3 -> cp >= 2048 /\ cp \notin 55296..57343
      [] OTHER -> cp >= 65536 /\ cp <= 1114111

UnicodeWhiteSpace ==
    {160, 5760, 8232, 8233, 8239, 8287, 12288, 65279} \cup (8192..8202)

DecodeCons(c, r) == IF r.ok THEN [ok |-> TRUE, s |-> <<c>> \o r.s] ELSE r

\* The continuation bytes of the n-byte UTF-8 sequence escaped at position k.
Continuations(s, k, n) == [j \in 1..(n - 1) |-> EscapeByte(s, k + 3 * j)]

\* The character an n-byte sequence with lead byte b and continuation bytes
\* conts decodes to; "" when the sequence is not valid UTF-8.
Utf8Char(b, n, conts, cp) ==
    IF n = 0 \/ (\E j \in 1..(n - 1) : conts[j] \notin 128..191) THEN ""
    ELSE IF ~ValidCodePoint(n, cp) THEN ""
    ELSE IF cp \in UnicodeWhiteSpace THEN NonAsciiWS
    ELSE IF cp = 8490 THEN Kelvin
    ELSE IF cp = 304 THEN DottedI
    ELSE NonAscii

RECURSIVE Decode(_, _)
\* The escape at position k denotes byte b (-1: malformed); c is the
\* character of the multi-byte sequence it opens.
DecodeEscape(s, k, b, n, c) ==
    IF b < 0 THEN URIError
    ELSE IF b < 128 THEN DecodeCons(CharOfByte(b), Decode(s, k + 3))
    ELSE IF c = "" THEN URIError
    ELSE DecodeCons(c, Decode(s, k + 3 * n))

DecodeMultiByte(s, k, b, n, conts) ==
    DecodeEscape(s, k, b, n,
                 IF b < 128 \/ n = 0 THEN ""
                 ELSE Utf8Char(b, n, conts, CodePoint(b, conts)))

DecodeByte(s, k, b, n) == DecodeMultiByte(s, k, b, n, Continuations(s, k, n))

Decode(s, k) ==
    IF k > Len(s) THEN [ok |-> TRUE, s |-> <<>>]
    ELSE IF s[k] # "%" THEN DecodeCons(s[k], Decode(s, k + 1))
    ELSE DecodeByte(s, k, EscapeByte(s, k), Utf8Length(EscapeByte(s, k)))

decodeURIComponent(s) == Decode(s, 1)

(***************************************************************************)
(* Number(string).  The result is Num(n) when the double the literal      *)
(* denotes is an integer below 10^6 in magnitude (-0 is 0), NaN, or        *)
(* OtherNumber: a fraction, a larger value or an infinity.  A decimal      *)
(* literal denotes the double nearest to its exact value, ties to even.    *)
(***************************************************************************)
NaN == [t |-> "number", nan |-> TRUE]
OtherNumber == [t |-> "number", other |-> TRUE]

IsInteger(v) == v.t = "number" /\ "n" \in DOMAIN v

AllIn(s, set) == \A i \in 1..Len(s) : s[i] \in set

RECURSIVE StripZeros(_)
StripZeros(ds) ==
    IF ds # <<>> /\ Head(ds) = "0" THEN StripZeros(Tail(ds)) ELSE ds

RECURSIVE DigitsValue(_, _, _)
DigitsValue(ds, radix, acc) ==
    IF ds = <<>> THEN acc
    ELSE DigitsValue(Tail(ds), radix, acc * radix + HexVal[Head(ds)])

\* The value of the digits ds in the given radix, from the value acc of the
\* digits before them.
RECURSIVE RadixFold(_, _, _)
RadixFold(ds, radix, acc) ==
    IF acc >= 1000000 THEN OtherNumber
    ELSE IF ds = <<>> THEN Num(acc)
    ELSE RadixFold(Tail(ds), radix, acc * radix + HexVal[Head(ds)])

RadixValue(ds, radix) == RadixFold(ds, radix, 0)

\* 0x / 0o / 0b literals: the digits after the prefix, in the given radix.
RadixLiteral(ds, radix, allowed) ==
    IF ds = <<>> \/ ~AllIn(ds, allowed) THEN NaN
    ELSE RadixValue(StripZeros(ds), radix)

\* Decimal fractions below 1 as sequences of digits 0..9 after the point.
\* Half of the fraction s: exact, with one digit more.
Half(s) ==
    SubSeq([i \in 1..(Len(s) + 1) |->
               (IF i <= Len(s) THEN s[i] \div 2 ELSE 0)
               + (IF i > 1 /\ s[i - 1] % 2 = 1 THEN 5 ELSE 0)],
           1, Len(s) + 1)

\* s halved n times.
RECURSIVE HalfTimes(_, _)
HalfTimes(s, n) == IF n = 0 \/ s = <<>> THEN s ELSE HalfTimes(Half(s), n - 1)

\* s halved 32 * b times.
RECURSIVE HalfBlocks(_, _)
HalfBlocks(s, b) ==
    IF b = 0 \/ s = <<>> THEN s ELSE HalfBlocks(HalfTimes(s, 32), b - 1)

\* The j digits of 2^-j, j >= 1.
PowerOfHalf(j) == HalfTimes(HalfBlocks(<<5>>, (j - 1) \div 32), (j - 1) % 32)

DigitAt(s, i) == IF i <= Len(s) THEN s[i] ELSE 0

\* The fractions a and b differ at some digit.
Differ(a, b) == \E i \in 1..(Len(a) + Len(b)) : DigitAt(a, i) # DigitAt(b, i)

FirstDifference(a, b) ==
    CHOOSE i \in 1..(Len(a) + Len(b)) :
        /\ DigitAt(a, i) # DigitAt(b, i)
        /\ \A j \in 1..(i - 1) : DigitAt(a, j) = DigitAt(b, j)

\* a <= b
LeqFraction(a, b) ==
    ~Differ(a, b)
    \/ DigitAt(a, FirstDifference(a, b)) < DigitAt(b, FirstDifference(a, b))

\* 1 - f for a fraction f whose last digit is not 0.
Complement(f) == [i \in 1..Len(f) |-> IF i = Len(f) THEN 10 - f[i] ELSE 9 - f[i]]

LeadingZeros(f) ==
    IF \E i \in 1..Len(f) : f[i] # 0
    THEN (CHOOSE i \in 1..Len(f) : f[i] # 0 /\ \A j \in 1..(i - 1) : f[j] = 0) - 1
    ELSE Len(f)

\* The binary exponent of the integer k >= 1: 2^e <= k < 2^(e+1).
RECURSIVE BinaryExponent(_)
BinaryExponent(k) == IF k < 2 THEN 0 ELSE 1 + BinaryExponent(k \div 2)

\* Doubles have 53 significant bits.  Every x with k <= x <= k + 2^-j is
\* nearer to the integer k than to the double after it, or as near (k is
\* then the even one); for k = 0 the double after it is 2^-1074.
HalfGapAbove(k) == IF k = 0 THEN 1075 ELSE 53 - BinaryExponent(k)

\* Every x with m - 2^-j <= x <= m is nearer to the integer m >= 1 than to
\* the double before it, or as near; below a power of two the doubles lie
\* twice as close.
HalfGapBelow(m) ==
    IF 2 ^ BinaryExponent(m) = m THEN 54 - BinaryExponent(m)
    ELSE 53 - BinaryExponent(m)

\* k + f rounds to k.  2^-1075 is 2.47...e-324: it has 323 leading zeros.
RoundsDown(k, f) ==
    IF k = 0
    THEN \/ LeadingZeros(f) > 323
         \/ LeadingZeros(f) = 323 /\ LeqFraction(f, PowerOfHalf(1075))
    ELSE LeqFraction(f, PowerOfHalf(HalfGapAbove(k)))

RoundsUp(k, f) == LeqFraction(Complement(f), PowerOfHalf(HalfGapBelow(k + 1)))

\* The double nearest to k + f, for an integer k below 10^6 and a fraction
\* f with 0 < f < 1: that double when it is an integer below 10^6, else -1.
NearestInteger(k, f) ==
    IF RoundsDown(k, f) THEN k
    ELSE IF k + 1 < 1000000 /\ RoundsUp(k, f) THEN k + 1
    ELSE -1

\* The q digits after the point of m * 10^-q.
FractionDigits(m, q) ==
    [i \in 1..q |-> IF i <= q - Len(m) THEN 0 ELSE HexVal[m[Len(m) - q + i]]]

RECURSIVE StripTrailingZeros(_)
StripTrailingZeros(ds) ==
    IF ds # <<>> /\ ds[Len(ds)] = "0"
    THEN StripTrailingZeros(SubSeq(ds, 1, Len(ds) - 1))
    ELSE ds

\* The double nearest to m * 10^p, for a digit string m that neither starts
\* nor ends with 0: that double when it is an integer below 10^6, else -1.
ScaledStripped(m, p) ==
    IF p >= 0
    THEN IF Len(m) + p > 6 THEN -1
         ELSE DigitsValue(m \o [i \in 1..p |-> "0"], 10, 0)
    ELSE IF Len(m) + p > 6 THEN -1
    ELSE IF -p - Len(m) > 323 THEN 0
    ELSE NearestInteger(IF Len(m) + p > 0
                        THEN DigitsValue(SubSeq(m, 1, Len(m) + p), 10, 0)
                        ELSE 0,
                        FractionDigits(m, -p))

\* The double nearest to mant * 10^p for a digit string mant without
\* leading zeros: that double when it is an integer below 10^6, else -1.
ScaledValue(mant, p) ==
    IF mant = <<>> THEN 0
    ELSE ScaledStripped(StripTrailingZeros(mant),
                        p + Len(mant) - Len(StripTrailingZeros(mant)))

\* The value of the digits mant (no leading zeros) scaled by ten to the
\* exponent given by expNeg and expDigits (no leading zeros), less fracLen.
DecimalValue(mant, fracLen, expNeg, expDigits, negative, v) ==
    IF mant = <<>> THEN Num(0)
    ELSE IF v < 0 THEN OtherNumber
    ELSE Num(IF negative THEN -v ELSE v)

DecimalScaled(mant, fracLen, expNeg, expDigits, negative, e) ==
    DecimalValue(mant, fracLen, expNeg, expDigits, negative,
                 ScaledValue(mant, (IF expNeg THEN -e ELSE e) - fracLen))

DecimalParts(intPart, fracPart, hasExp, expNeg, expDigits, negative) ==
    IF ~(/\ AllIn(intPart, Digits) /\ AllIn(fracPart, Digits)
         /\ intPart \o fracPart # <<>>
         /\ hasExp => (expDigits # <<>> /\ AllIn(expDigits, Digits)))
    THEN NaN
    ELSE DecimalScaled(StripZeros(intPart \o fracPart), Len(fracPart), expNeg,
                       StripZeros(expDigits), negative,
                       \* an exponent of more than 7 digits outweighs the
                       \* mantissa of any literal a header can hold
                       IF Len(StripZeros(expDigits)) > 7 THEN 10000000
                       ELSE DigitsValue(StripZeros(expDigits), 10, 0))

DecimalMantissa(mantissa, dot, hasExp, expPart, negative) ==
    DecimalParts(IF dot = 0 THEN mantissa ELSE SubSeq(mantissa, 1, dot - 1),
                 IF dot = 0 THEN <<>> ELSE SubSeq(mantissa, dot + 1, Len(mantissa)),
                 hasExp,
                 expPart # <<>> /\ Head(expPart) = "-",
                 IF expPart # <<>> /\ Head(expPart) \in {"+", "-"}
                 THEN Tail(expPart) ELSE expPart,
                 negative)

DecimalSplit(u, ePos, mantissa, negative) ==
    DecimalMantissa(mantissa, IndexOfAny(mantissa, {"."}), ePos # 0,
                    IF ePos = 0 THEN <<>> ELSE SubSeq(u, ePos + 1, Len(u)),
                    negative)

DecimalAt(u, ePos, negative) ==
    DecimalSplit(u, ePos, IF ePos = 0 THEN u ELSE SubSeq(u, 1, ePos - 1), negative)

\* StrUnsignedDecimalLiteral: digits [. digits] [e [+-] digits], or . digits.
DecimalLiteral(u, negative) == DecimalAt(u, IndexOfAny(u, {"e", "E"}), negative)

Infinity == <<"I", "n", "f", "i", "n", "i", "t", "y">>

NumberOfTrimmed(t) ==
    IF t = <<>> THEN Num(0)
    ELSE IF Len(t) >= 2 /\ t[1] = "0" /\ t[2] \in {"x", "X"}
    THEN RadixLiteral(SubSeq(t, 3, Len(t)), 16, DOMAIN HexVal)
    ELSE IF Len(t) >= 2 /\ t[1] = "0" /\ t[2] \in {"o", "O"}
    THEN RadixLiteral(SubSeq(t, 3, Len(t)), 8, {"0", "1", "2", "3", "4", "5", "6", "7"})
    ELSE IF Len(t) >= 2 /\ t[1] = "0" /\ t[2] \in {"b", "B"}
    THEN RadixLiteral(SubSeq(t, 3, Len(t)), 2, {"0", "1"})
    ELSE IF t \in {Infinity, <<"+">> \o Infinity, <<"-">> \o Infinity} THEN OtherNumber
    ELSE DecimalLiteral(IF t[1] \in {"+", "-"} THEN Tail(t) ELSE t, t[1] = "-")

\* StringToNumber
Number(s) == NumberOfTrimmed(trim(s))

(***************************************************************************)
(* parseCookies: split on ";", trim, skip empty segments, the name is the  *)
(* text before the first "=", the value the URL-decoded rest.  The result  *)
(* is [ok, map]: ok is FALSE when decodeURIComponent throws.  A later      *)
(* segment of the same name overwrites an earlier one.                     *)
(***************************************************************************)
EmptyMap == [k \in {} |-> <<>>]

ProtoKey == <<"_", "_", "p", "r", "o", "t", "o", "_", "_">>

\* acc[k] = v on a plain object: assigning a string to __proto__ creates no
\* property.
Assign(acc, k, v) ==
    IF k = ProtoKey THEN acc
    ELSE [x \in (DOMAIN acc) \cup {k} |-> IF x = k THEN v ELSE acc[x]]

RECURSIVE CookieReduce(_, _)
\* acc[k] = decodeURIComponent(v.join("=")) for the pair split into kv.
CookieAssign(rest, acc, k, decoded) ==
    IF ~decoded.ok THEN [ok |-> FALSE, map |-> EmptyMap]
    ELSE CookieReduce(rest, Assign(acc, k, decoded.s))

CookiePair(rest, acc, kv) ==
    CookieAssign(rest, acc, Head(kv), decodeURIComponent(join(Tail(kv), "=")))

CookieReduce(pairs, acc) ==
    IF pairs = <<>> THEN [ok |-> TRUE, map |-> acc]
    ELSE IF Head(pairs) = <<>> THEN CookieReduce(Tail(pairs), acc)
    ELSE CookiePair(Tail(pairs), acc, split(Head(pairs), "="))

TrimAll(segs) == [i \in 1..Len(segs) |-> trim(segs[i])]

parseCookies(cookieHeader) == CookieReduce(TrimAll(split(cookieHeader, ";")), EmptyMap)

(***************************************************************************)
(* The module's constant tables.                                           *)
(***************************************************************************)
\* A string literal of the source, named by its opening words; it is not
\* empty and no operation of the handler looks inside it.
Lit(text) == [t |-> "string", lit |-> text]

Function == [t |-> "function"]
ObjectPrototype == [t |-> "prototype"]

KeyHello == <<"h", "e", "l", "l", "o">>
KeyHi == <<"h", "i">>
KeyHelp == <<"h", "e", "l", "p">>

\* Lower-case names that every plain object inherits from Object.prototype.
KeyConstructor == <<"c", "o", "n", "s", "t", "r", "u", "c", "t", "o", "r">>

\* The other inherited names; each holds an upper-case letter.
InheritedMethods ==
    { <<"t", "o", "S", "t", "r", "i", "n", "g">>,
      <<"v", "a", "l", "u", "e", "O", "f">>,
      <<"t", "o", "L", "o", "c", "a", "l", "e", "S", "t", "r", "i", "n", "g">>,
      <<"h", "a", "s", "O", "w", "n", "P", "r", "o", "p", "e", "r", "t", "y">>,
      <<"i", "s", "P", "r", "o", "t", "o", "t", "y", "p", "e", "O", "f">>,
      <<"p", "r", "o", "p", "e", "r", "t", "y", "I", "s", "E", "n", "u", "m", "e", "r", "a", "b", "l", "e">>,
      <<"_", "_", "d", "e", "f", "i", "n", "e", "G", "e", "t", "t", "e", "r", "_", "_">>,
      <<"_", "_", "d", "e", "f", "i", "n", "e", "S", "e", "t", "t", "e", "r", "_", "_">>,
      <<"_", "_", "l", "o", "o", "k", "u", "p", "G", "e", "t", "t", "e", "r", "_", "_">>,
      <<"_", "_", "l", "o", "o", "k", "u", "p", "S", "e", "t", "t", "e", "r", "_", "_">> }

\* cachedReplies[key]: the object's own three entries, else what the
\* prototype chain holds under that name, else undefined.
cachedReplies(key) ==
    CASE key = KeyHello -> Lit("Hello! I'm your English Assistant.")
      [] key = KeyHi -> Lit("Hi there! Ready to test your English skills?")
      [] key = KeyHelp -> Lit("I'm here to help you assess your English level.")
      [] key = KeyConstructor -> Function
      [] key = ProtoKey -> ObjectPrototype
      [] key \in InheritedMethods -> Function
      [] OTHER -> Undefined

\* The four question sets: VERSIONS[n] for a number n, undefined unless n is
\* one of the keys 1..4.
VersionIds == 1..4

VERSIONS(n) ==
    IF IsInteger(n) /\ n.n \in VersionIds
    THEN CASE n.n = 1 -> Lit("Version 1")
           [] n.n = 2 -> Lit("Version 2")
           [] n.n = 3 -> Lit("Version 3")
           [] OTHER -> Lit("Version 4")
    ELSE Undefined

\* buildSystemPrompt: the fixed policy text with versionText interpolated.
buildSystemPrompt(versionText) ==
    [t |-> "string", template |-> "You are an English placement chatbot for LETSknow.",
     selectedTest |-> versionText]

RoleSystem == Str(<<"s", "y", "s", "t", "e", "m">>)
RoleUser == Str(<<"u", "s", "e", "r">>)
RoleAssistant == Str(<<"a", "s", "s", "i", "s", "t", "a", "n", "t">>)

Turn(role, content) == Obj([role |-> role, content |-> content])

(***************************************************************************)
(* Variant resolution (handler, the cookie block).                         *)
(***************************************************************************)
CookieName == <<"c", "e", "f", "r", "_", "v", "e", "r", "s", "i", "o", "n">>

RECURSIVE NumberToString(_)
NumberToString(n) ==
    IF n < 10 THEN <<AsciiPrintable[17 + n]>>
    ELSE NumberToString(n \div 10) \o <<AsciiPrintable[17 + (n % 10)]>>

\* Mutant of SetCookieFor: the cookie is written under another name than the
\* one the handler reads.
SetCookieForOtherName(version) ==
    << <<"c", "e", "f", "r">> \o <<"=">> \o NumberToString(version),
       "Path=/", "Max-Age=3600", "HttpOnly=false", "SameSite=Lax", "Secure" >>

\* The Set-Cookie value the template literal builds: the name=value pair,
\* then the attributes, in order; the parts are joined by "; ".
SetCookieFor(version) ==
    << CookieName \o <<"=">> \o NumberToString(version),
       "Path=/", "Max-Age=3600", "HttpOnly=false", "SameSite=Lax", "Secure" >>

\* cookies.cefr_version ? Number(cookies.cefr_version) : null
CookieVersion(cookies) ==
    IF CookieName \in DOMAIN cookies /\ cookies[CookieName] # <<>>
    THEN Number(cookies[CookieName])
    ELSE Null

\* !version || !VERSIONS[version]
NeedsNewVersion(version) ==
    ~Truthy(version) \/ ~Truthy(VERSIONS(version))

\* The handler's version and setCookieHeader (<<>> for null) once the
\* cookie's version is read; rnd is Math.floor(Math.random() * 4) + 1, drawn
\* only when a new version is needed.
Resolved(version, rnd) ==
    IF NeedsNewVersion(version)
    THEN [version |-> rnd, setCookieHeader |-> SetCookieFor(rnd)]
    ELSE [version |-> version.n, setCookieHeader |-> <<>>]

ResolveVersion(cookies, rnd) == Resolved(CookieVersion(cookies), rnd)

(***************************************************************************)
(* Input extraction, cache lookup and prompt assembly.                     *)
(***************************************************************************)
EmptyObject == Obj([history |-> Undefined, message |-> Undefined])

NonEmptyArray(v) == v.t = "array" /\ Len(v.a) > 0

IsString(v) == v.t = "string" /\ "s" \in DOMAIN v

\* value.toLowerCase().trim(); ok is FALSE when it throws TypeError (the
\* value is not a string).
Normalised(value) ==
    IF IsString(value) THEN [ok |-> TRUE, s |-> trim(toLowerCase(value.s))]
    ELSE [ok |-> FALSE, s |-> <<>>]

\* history[history.length - 1].content; reading it throws TypeError when the
\* last turn is null or undefined, as does toLowerCase on undefined.
LastContent(last) == IF Nullish(last) THEN Undefined ELSE Prop(last, "content")

\* The latest utterance, lower-cased and trimmed.
UserMessage(history, message) ==
    IF NonEmptyArray(history) THEN Normalised(LastContent(history.a[Len(history.a)]))
    ELSE IF ~Truthy(message) THEN [ok |-> TRUE, s |-> <<>>]
    ELSE Normalised(message)

\* The messages sent upstream; <<>> when there is neither history nor message.
BuildMessages(versionText, history, message) ==
    IF NonEmptyArray(history)
    THEN <<Turn(RoleSystem, buildSystemPrompt(versionText))>> \o history.a
    ELSE IF Truthy(message)
    THEN <<Turn(RoleSystem, buildSystemPrompt(versionText)), Turn(RoleUser, message)>>
    ELSE <<>>

(***************************************************************************)
(* Responses.  headers holds the Set-Cookie value (<<>> when none is set)  *)
(* and the Allow value ("" when none is set).                              *)
(***************************************************************************)
Response(status, body, setCookie, allow) ==
    [status |-> status, body |-> body, setCookie |-> setCookie, allow |-> allow]

NoResponse == Response(0, Undefined, <<>>, "")

\* JSON.stringify of a property value as the client reads it back: a
\* function or undefined drops the property, Object.prototype has no
\* enumerable property and reads back as an empty object.
Json(v) ==
    IF v.t \in {"function", "undefined"} THEN Undefined
    ELSE IF v.t = "prototype" THEN Obj(EmptyMap)
    ELSE v

ReplyBody(reply) == Obj([reply |-> Json(reply)])
ErrorBody(error) == Obj([error |-> Lit(error)])
UpstreamErrorBody(details) ==
    Obj([error |-> Lit("AI service error"), details |-> details])

ServerError == Response(500, ErrorBody("Server error"), <<>>, "")

(***************************************************************************)
(* The upstream completion call.  An outcome is what fetch yields: it      *)
(* rejects (network failure), or resolves to a response with a status and  *)
(* a body; the body is JSON text holding a value, or text that is not JSON. *)
(***************************************************************************)
Outcome(rejects, status, json, v) ==
    [rejects |-> rejects, status |-> status,
     body |-> [lost |-> FALSE, json |-> json, v |-> v]]

\* fetch resolved with the given status, and reading the body then fails
\* (the connection is lost before the body is complete).
BodyLost(status) ==
    [rejects |-> FALSE, status |-> status,
     body |-> [lost |-> TRUE, json |-> FALSE, v |-> Undefined]]

\* fetch resolved with the status of outcome; the body has not been read.
HeadersOf(outcome) == Outcome(FALSE, outcome.status, FALSE, Undefined)

NoOutcome == Outcome(FALSE, 0, FALSE, Undefined)

\* openaiRes.ok
Ok(outcome) == outcome.status \in 200..299

\* openaiRes.text(): the raw body.
RawText(body) == [t |-> "string", raw |-> body]

Fallback == Lit("I couldn't generate a response.")

\* a?.[0] and a?.name
OptIndex0(v) == IF Nullish(v) THEN Undefined ELSE Index0(v)
OptProp(v, k) == IF Nullish(v) THEN Undefined ELSE Prop(v, k)

\* a ?? b
Coalesce(a, b) == IF Nullish(a) THEN b ELSE a

\* data.choices?.[0]?.message?.content ?? Fallback, for data that is neither
\* null nor undefined.
ExtractReply(data) ==
    Coalesce(OptProp(OptProp(OptIndex0(Prop(data, "choices")), "message"), "content"),
             Fallback)

(***************************************************************************)
(* The handler.  One invocation is a record: the request, the handler's    *)
(* locals (version, setCookieHeader, messages), the number of upstream     *)
(* calls it has made, the outcome of the call and the response.  pc is     *)
(* "idle" (no invocation), "awaiting" (suspended on fetch), "reading"      *)
(* (suspended on openaiRes.text() or openaiRes.json()) or "done".          *)
(***************************************************************************)
Request(method, cookie, body) == [method |-> method, cookie |-> cookie, body |-> body]

NoRequest == Request("", Undefined, Undefined)

Idle ==
    [pc |-> "idle", req |-> NoRequest, version |-> 0, setCookieHeader |-> <<>>,
     messages |-> <<>>, fetches |-> 0, outcome |-> NoOutcome, res |-> NoResponse]

Responded(req, version, setCookieHeader, res) ==
    [pc |-> "done", req |-> req, version |-> version,
     setCookieHeader |-> setCookieHeader, messages |-> <<>>, fetches |-> 0,
     outcome |-> NoOutcome, res |-> res]

\* The cache check and what follows it, up to the call of fetch.
AfterInput(req, version, setCookieHeader, userMessage, cached, messages) ==
    IF ~userMessage.ok
    THEN Responded(req, version, setCookieHeader, ServerError)
    ELSE IF Truthy(cached)
    THEN Responded(req, version, setCookieHeader,
                   Response(200, ReplyBody(cached), setCookieHeader, ""))
    ELSE IF messages = <<>>
    THEN Responded(req, version, setCookieHeader,
                   Response(400, ErrorBody("No message or history provided"), <<>>, ""))
    ELSE [pc |-> "awaiting", req |-> req, version |-> version,
          setCookieHeader |-> setCookieHeader, messages |-> messages,
          fetches |-> 1, outcome |-> NoOutcome, res |-> NoResponse]

WithUserMessage(req, version, setCookieHeader, history, message, userMessage) ==
    AfterInput(req, version, setCookieHeader, userMessage,
               IF userMessage.ok THEN cachedReplies(userMessage.s) ELSE Undefined,
               BuildMessages(VERSIONS(Num(version)), history, message))

\* const { history, message } = req.body ?? {}
WithBody(req, version, setCookieHeader, body) ==
    WithUserMessage(req, version, setCookieHeader,
                    Prop(body, "history"), Prop(body, "message"),
                    UserMessage(Prop(body, "history"), Prop(body, "message")))

WithVersion(req, resolved) ==
    WithBody(req, resolved.version, resolved.setCookieHeader,
             Coalesce(req.body, EmptyObject))

WithCookies(req, cookies, rnd) ==
    IF ~cookies.ok THEN Responded(req, 0, <<>>, ServerError)
    ELSE WithVersion(req, ResolveVersion(cookies.map, rnd))

\* The handler from its entry to its first await or its response.
HandlerSync(req, rnd) ==
    IF req.method # "POST"
    THEN Responded(req, 0, <<>>, Response(405, ErrorBody("Method not allowed"), <<>>, "POST"))
    ELSE WithCookies(req, parseCookies(IF Truthy(req.cookie) THEN req.cookie.s ELSE <<>>), rnd)

\* Mutant of UpstreamResponse: the 502 path leaves the pending cookie out, as
\* the 400 path does.
UpstreamResponseDropsCookie(setCookieHeader, outcome) ==
    IF outcome.rejects \/ outcome.body.lost THEN ServerError
    ELSE IF ~Ok(outcome)
    THEN Response(502, UpstreamErrorBody(RawText(outcome.body)), <<>>, "")
    ELSE IF ~outcome.body.json \/ Nullish(outcome.body.v) THEN ServerError
    ELSE Response(200, ReplyBody(ExtractReply(outcome.body.v)), setCookieHeader, "")

\* The response the handler builds once the upstream call is over: fetch
\* rejected, or the body was read or reading it failed.
UpstreamResponse(setCookieHeader, outcome) ==
    IF outcome.rejects \/ outcome.body.lost THEN ServerError
    ELSE IF ~Ok(outcome)
    THEN Response(502, UpstreamErrorBody(RawText(outcome.body)), setCookieHeader, "")
    ELSE IF ~outcome.body.json \/ Nullish(outcome.body.v) THEN ServerError
    ELSE Response(200, ReplyBody(ExtractReply(outcome.body.v)), setCookieHeader, "")

\* The handler from the settling of fetch to its next await, on the body of
\* the response, or to its response when fetch rejected.
HandlerResume(inv, outcome) ==
    IF outcome.rejects
    THEN [inv EXCEPT !.pc = "done", !.outcome = outcome,
                     !.res = UpstreamResponse(inv.setCookieHeader, outcome)]
    ELSE [inv EXCEPT !.pc = "reading", !.outcome = HeadersOf(outcome)]

\* The handler from the settling of openaiRes.text() or openaiRes.json() to
\* its response.
HandlerRead(inv, outcome) ==
    [inv EXCEPT !.pc = "done", !.outcome = outcome,
                !.res = UpstreamResponse(inv.setCookieHeader, outcome)]

\* Math.random is called only when the request is a POST whose cookies
\* parse and name no version (lines 96-98).
DrawsOn(method, cookies) ==
    method = "POST" /\ cookies.ok /\ NeedsNewVersion(CookieVersion(cookies.map))

\* The values Math.floor(Math.random() * 4) + 1 can take for a request; the
\* handler reads none when it makes no draw.
Draws(req) ==
    IF DrawsOn(req.method, parseCookies(IF Truthy(req.cookie) THEN req.cookie.s ELSE <<>>))
    THEN VersionIds
    ELSE {1}

(***************************************************************************)
(* Inputs.                                                                 *)
(***************************************************************************)
\* Largest number of segments in a Cookie header.
MaxSegments == 2

\* Largest number of requests one session client has outstanding.
MaxInFlight == 2

Named(value) == CookieName \o <<"=">> \o value

\* Segments of a Cookie header: the variant cookie with valid, invalid,
\* empty, padded, escaped and malformed values, other cookies, malformed
\* or empty segments, and a value that is no integer but rounds to one.
Segments ==
    { Named(<<"4">>), <<" ">> \o Named(<<"3">>), Named(<<"9">>), Named(<<"a", "b", "c">>),
      Named(<<>>), CookieName, Named(<<"0", "1">>), Named(<<"%", "3", "2">>),
      Named(<<"%">>), <<"a", "=", "b">>, <<"a", "=", "%", "z", "z">>, <<>>,
      Named(<<"4", ".", "0", "0", "0", "0", "0", "0", "0", "0", "0", "0", "0", "0", "0", "0", "0", "1">>) }

RECURSIVE SegmentLists(_)
SegmentLists(n) ==
    IF n = 0 THEN {<<>>}
    ELSE LET shorter == SegmentLists(n - 1) IN
         shorter \cup {Append(l, seg) : l \in {x \in shorter : Len(x) = n - 1},
                                        seg \in Segments}

\* The Cookie header: absent, or one to MaxSegments segments joined by ";".
CookieHeaders ==
    {Undefined} \cup {Str(join(l, ";")) : l \in SegmentLists(MaxSegments) \ {<<>>}}

UserTurn(content) == Turn(RoleUser, Str(content))
AssistantTurn(content) == Turn(RoleAssistant, Str(content))

Body(history, message) == Obj([history |-> history, message |-> message])

\* Request bodies: missing, empty, a message or a history that hits the
\* cache, one that does not, names that plain objects inherit, and values
\* of the wrong type.
Bodies ==
    { Undefined,
      Body(Undefined, Undefined),
      Body(Undefined, Str(<<"H", "e", "l", "l", "o">>)),
      Body(Undefined, Str(<<" ", "h", "i", " ">>)),
      Body(Undefined, Str(<<"H", "E", "L", "P">>)),
      Body(Undefined, Str(<<>>)),
      Body(Undefined, Str(<<"h", "i", " ", "t", "h", "e", "r", "e">>)),
      Body(Undefined, Str(<<"c", "o", "n", "s", "t", "r", "u", "c", "t", "o", "r">>)),
      Body(Undefined, Str(<<"_", "_", "p", "r", "o", "t", "o", "_", "_">>)),
      Body(Undefined, Str(<<"t", "o", "S", "t", "r", "i", "n", "g">>)),
      Body(Undefined, Num(5)),
      Body(Undefined, Str(<<"H", DottedI>>)),
      Body(Arr(<<>>), Undefined),
      Body(Arr(<<>>), Str(<<"h", "i">>)),
      Body(Str(<<"h", "i">>), Undefined),
      Body(Arr(<<UserTurn(<<"h", "i">>)>>), Undefined),
      Body(Arr(<<UserTurn(<<"h", "i">>), AssistantTurn(<<"o", "k">>), UserTurn(<<"I", " ", "l", "i", "v", "e", " ", "i", "n", " ", "O", "s", "l", "o">>)>>),
           Str(<<"h", "e", "l", "l", "o">>)),
      Body(Arr(<<Obj([role |-> RoleUser, content |-> Undefined])>>), Str(<<"h", "i">>)) }

Completion(content) ==
    Obj([choices |-> Arr(<<Obj([message |-> Obj([content |-> content])])>>)])

\* What the upstream call yields: a network failure, error statuses with
\* a body, a body that is lost while it is read, and success statuses whose
\* body is not JSON, is JSON null, or is
\* an object with and without a completion text, the choices an array or
\* an object with a property "0".
Outcomes ==
    { Outcome(TRUE, 0, FALSE, Undefined),
      Outcome(FALSE, 500, FALSE, Lit("upstream internal error")),
      Outcome(FALSE, 429, TRUE, Obj([error |-> Lit("rate limited")])),
      BodyLost(500),
      BodyLost(200),
      Outcome(FALSE, 200, FALSE, Lit("<html>")),
      Outcome(FALSE, 200, TRUE, Null),
      Outcome(FALSE, 200, TRUE, Obj([choices |-> Undefined])),
      Outcome(FALSE, 200, TRUE, Obj([choices |-> Null])),
      Outcome(FALSE, 200, TRUE, Obj([choices |-> Arr(<<>>)])),
      Outcome(FALSE, 200, TRUE, Obj([choices |-> Arr(<<Obj([message |-> Undefined])>>)])),
      Outcome(FALSE, 200, TRUE, Completion(Undefined)),
      Outcome(FALSE, 200, TRUE, Completion(Null)),
      Outcome(FALSE, 200, TRUE, Completion(Str(<<>>))),
      Outcome(FALSE, 200, TRUE, Completion(Str(<<"W", "h", "e", "r", "e", " ", "d", "o", " ", "y", "o", "u", " ", "l", "i", "v", "e", "?">>))),
      Outcome(FALSE, 201, TRUE, Completion(Str(<<"H", "i", "!">>))),
      Outcome(FALSE, 200, TRUE,
              Obj([choices |->
                  Obj([k \in {"0"} |->
                      Obj([message |-> Obj([content |-> Str(<<"O", "k">>)])])])])) }

Requests ==
    {Request("POST", c, b) : c \in CookieHeaders, b \in Bodies}
    \cup {Request("GET", Undefined, Undefined)}

(***************************************************************************)
(* State.  slots holds the invocations in progress.  jar is the session    *)
(* client's stored cookie (the name=value pair it sends back, Undefined    *)
(* when it holds none) and firstVariant the id the session's first         *)
(* resolving request resolved (0 before that).                             *)
(***************************************************************************)
VARIABLES slots, jar, firstVariant

vars == <<slots, jar, firstVariant>>

\* A request arrives from any caller and the handler runs to its first
\* await or its response.
Invoke(i) ==
    /\ slots[i].pc = "idle"
    /\ \E req \in Requests :
           \E rnd \in Draws(req) :
               slots' = [slots EXCEPT ![i] = HandlerSync(req, rnd)]
    /\ UNCHANGED <<jar, firstVariant>>

\* fetch settles, as in one of the given outcomes: it rejects and the
\* handler runs to its response, or it resolves with a status and the
\* handler runs to its await on the body.
Settle(i, outcomes) ==
    /\ slots[i].pc = "awaiting"
    /\ \E outcome \in outcomes :
           slots' = [slots EXCEPT ![i] = HandlerResume(slots[i], outcome)]
    /\ UNCHANGED <<jar, firstVariant>>

\* The reading of the body settles, as in one of the given outcomes of the
\* status received, and the handler runs to its response.
ReadBody(i, outcomes) ==
    /\ slots[i].pc = "reading"
    /\ \E outcome \in outcomes :
           /\ ~outcome.rejects
           /\ outcome.status = slots[i].outcome.status
           /\ slots' = [slots EXCEPT ![i] = HandlerRead(slots[i], outcome)]
    /\ UNCHANGED <<jar, firstVariant>>

\* The response leaves; the invocation is over.
Deliver(i) ==
    /\ slots[i].pc = "done"
    /\ slots' = [slots EXCEPT ![i] = Idle]
    /\ UNCHANGED <<jar, firstVariant>>

\* Invocations share no state, so one at a time shows every behaviour of a
\* single request.
Init ==
    /\ slots = [i \in {1} |-> Idle]
    /\ jar = Undefined
    /\ firstVariant = 0

Next ==
    \/ \E i \in DOMAIN slots : Invoke(i)
    \/ \E i \in DOMAIN slots : Settle(i, Outcomes)
    \/ \E i \in DOMAIN slots : ReadBody(i, Outcomes)
    \/ \E i \in DOMAIN slots : Deliver(i)

Spec == Init /\ [][Next]_vars

(***************************************************************************)
(* A session: one client that starts without a cookie, stores the          *)
(* name=value pair of every Set-Cookie it receives and sends the stored    *)
(* pair as its Cookie header, with up to MaxInFlight requests outstanding. *)
(***************************************************************************)
SessionBodies ==
    { Body(Undefined, Undefined),
      Body(Undefined, Str(<<"h", "i">>)),
      Body(Undefined, Str(<<"n", "o">>)) }

\* What the upstream call yields in a session: 502 and 200 responses, which
\* carry the pending cookie, and the 500 response, which does not (a fetch
\* that rejects ends in the same response as a body that is lost).
SessionOutcomes ==
    { Outcome(FALSE, 500, FALSE, Lit("upstream internal error")),
      BodyLost(500),
      Outcome(FALSE, 200, TRUE, Completion(Str(<<"O", "k">>))) }

\* The client sends a request with its stored cookie; the handler runs to
\* its first await or its response.
ClientSend(i) ==
    /\ slots[i].pc = "idle"
    /\ \E body \in SessionBodies, rnd \in Draws(Request("POST", jar, NoRequest.body)) :
         LET inv == HandlerSync(Request("POST", jar, body), rnd) IN
         /\ slots' = [slots EXCEPT ![i] = inv]
         /\ firstVariant' = IF firstVariant = 0 THEN inv.version ELSE firstVariant
    /\ UNCHANGED jar

\* The client receives the response and stores the cookie it sets.
ClientReceive(i) ==
    /\ slots[i].pc = "done"
    /\ jar' = IF slots[i].res.setCookie # <<>>
              THEN Str(slots[i].res.setCookie[1])
              ELSE jar
    /\ slots' = [slots EXCEPT ![i] = Idle]
    /\ UNCHANGED firstVariant

SessionInit ==
    /\ slots = [i \in 1..MaxInFlight |-> Idle]
    /\ jar = Undefined
    /\ firstVariant = 0

SessionNext ==
    \/ \E i \in DOMAIN slots : ClientSend(i)
    \/ \E i \in DOMAIN slots : Settle(i, SessionOutcomes)
    \/ \E i \in DOMAIN slots : ReadBody(i, SessionOutcomes)
    \/ \E i \in DOMAIN slots : ClientReceive(i)

SessionSpec == SessionInit /\ [][SessionNext]_vars

(***************************************************************************)
(* Vocabulary of the properties, read off the request and the response     *)
(* rather than off the handler's own intermediate results.                 *)
(***************************************************************************)
Posted(s) == s.pc # "idle" /\ s.req.method = "POST"

HeaderText(req) == IF Truthy(req.cookie) THEN req.cookie.s ELSE <<>>

EntryName(seg) == Head(split(seg, "="))
EntryValue(seg) == join(Tail(split(seg, "=")), "=")

\* The trimmed segments of a header.
HeaderEntries(h) == TrimAll(split(h, ";"))

\* Positions of the entries that are named cefr_version.
VariantEntries(entries) ==
    {i \in 1..Len(entries) :
        entries[i] # <<>> /\ EntryName(entries[i]) = CookieName}

\* The raw value of the cefr_version entry: of the last one, when the
\* header repeats the name.
LastVariantValue(entries, at) ==
    EntryValue(entries[CHOOSE i \in at : \A j \in at : j <= i])

VariantValue(h) == LastVariantValue(HeaderEntries(h), VariantEntries(HeaderEntries(h)))

IdStrings == {NumberToString(k) : k \in VersionIds}

NamesId(decoded) == decoded.ok /\ decoded.s \in IdStrings

CarriesVariantAt(entries, at) ==
    at # {} /\ NamesId(decodeURIComponent(LastVariantValue(entries, at)))

CarriesVariantIn(entries) == CarriesVariantAt(entries, VariantEntries(entries))

\* The header carries a cefr_version entry whose (URL-decoded) value is one
\* of the strings "1", "2", "3", "4".
CarriesVariant(req) == CarriesVariantIn(HeaderEntries(HeaderText(req)))

IdNamedBy(decoded) == CHOOSE k \in VersionIds : decoded.s = NumberToString(k)

CarriedId(req) == IdNamedBy(decodeURIComponent(VariantValue(HeaderText(req))))

VersionTitles == <<"Version 1", "Version 2", "Version 3", "Version 4">>

\* The system turn that embeds question set k.
SystemTurnFor(k) == Turn(RoleSystem, buildSystemPrompt(Lit(VersionTitles[k])))

\* The Set-Cookie value names id k.
CookieNames(setCookie, k) ==
    setCookie # <<>> /\ setCookie[1] = Named(NumberToString(k))

\* The latest user utterance of a body: the content of the last element of
\* a non-empty history, otherwise message.
LatestUtterance(body) ==
    IF NonEmptyArray(Prop(Coalesce(body, EmptyObject), "history"))
    THEN LastContent(Prop(Coalesce(body, EmptyObject), "history").a[
             Len(Prop(Coalesce(body, EmptyObject), "history").a)])
    ELSE Prop(Coalesce(body, EmptyObject), "message")

CacheKeys == {KeyHello, KeyHi, KeyHelp}

\* The latest utterance is text that, lower-cased and trimmed, is a key of
\* the static cache.
HitsCache(body) ==
    /\ IsString(LatestUtterance(body))
    /\ trim(toLowerCase(LatestUtterance(body).s)) \in CacheKeys

CannedReply(body) == cachedReplies(trim(toLowerCase(LatestUtterance(body).s)))

\* The body has neither a non-empty history array nor a message.
NoInput(body) ==
    /\ ~NonEmptyArray(Prop(Coalesce(body, EmptyObject), "history"))
    /\ Prop(Coalesce(body, EmptyObject), "message") \in {Undefined, Str(<<>>)}

\* The upstream call returned a non-2xx status.
UpstreamFailed(s) ==
    s.pc = "done" /\ s.fetches > 0 /\ ~s.outcome.rejects /\ ~Ok(s.outcome)

\* The 502 response that relays the upstream text and carries the pending
\* cookie: one for the assigned id when the request had no Cookie header,
\* none when its cookie named a valid id.
Relayed(s) ==
    /\ s.res.status = 502
    /\ s.res.body = Obj([error |-> Lit("AI service error"),
                         details |-> RawText(s.outcome.body)])
    /\ s.res.setCookie = s.setCookieHeader
    /\ s.req.cookie = Undefined => CookieNames(s.res.setCookie, s.version)
    /\ CarriesVariant(s.req) => s.res.setCookie = <<>>

\* The upstream call returned a 2xx status with a JSON object as its body.
UpstreamSucceeded(s) ==
    /\ s.pc = "done" /\ s.fetches > 0 /\ ~s.outcome.rejects /\ Ok(s.outcome)
    /\ ~s.outcome.body.lost
    /\ s.outcome.body.json /\ s.outcome.body.v.t = "object"

\* choices[0].message.content of the upstream body, Undefined when a link of
\* the chain is missing.
CompletionText(data) ==
    OptProp(OptProp(OptIndex0(Prop(data, "choices")), "message"), "content")

(***************************************************************************)
(* Properties of a single request (Spec).                                  *)
(***************************************************************************)

\* The request of slot s resolved the id k, was sent upstream (if at all)
\* with the system turn of question set k, and set no cookie.
UsesId(s, k) ==
    /\ s.version = k
    /\ s.res.setCookie = <<>>
    /\ s.fetches > 0 => s.messages[1] = SystemTurnFor(k)

\* C1: a POST request whose Cookie header carries a cefr_version entry with
\* a value in {1,2,3,4} uses exactly that id as the variant (the system
\* prompt sent upstream embeds that question set), and no response to it,
\* whatever its status, carries a Set-Cookie header.
C1_ValidCookieReused ==
    \A i \in DOMAIN slots :
        (Posted(slots[i]) /\ CarriesVariant(slots[i].req)) =>
            UsesId(slots[i], CarriedId(slots[i].req))

\* C2: a POST request whose Cookie header is absent, has no cefr_version
\* entry, or has a cefr_version value that is not one of the strings "1",
\* "2", "3", "4" is assigned a fresh id in {1,2,3,4}; its 200 or 502
\* response carries a Set-Cookie for exactly that id, which is also the id
\* whose question set the prompt embeds.
C2_InvalidCookieGetsFreshId ==
    \A i \in DOMAIN slots :
        (Posted(slots[i]) /\ ~CarriesVariant(slots[i].req)) =>
            /\ slots[i].version \in VersionIds
            /\ slots[i].res.status \in {200, 502} =>
                   CookieNames(slots[i].res.setCookie, slots[i].version)
            /\ slots[i].fetches > 0 =>
                   slots[i].messages[1] = SystemTurnFor(slots[i].version)

\* C4: a POST request whose latest user utterance, lower-cased and trimmed,
\* equals a key of the static cache is answered 200 with that key's canned
\* reply, with any newly assigned cookie attached and no upstream call.
C4_CacheHitAnswered ==
    \A i \in DOMAIN slots :
        (Posted(slots[i]) /\ HitsCache(slots[i].req.body)) =>
            /\ slots[i].pc = "done"
            /\ slots[i].fetches = 0
            /\ slots[i].res.status = 200
            /\ slots[i].res.body = Obj([reply |-> CannedReply(slots[i].req.body)])
            /\ slots[i].res.setCookie = slots[i].setCookieHeader

\* C5: a POST request whose body has neither a non-empty history array nor
\* a message is answered 400 with an error body, before any upstream call.
C5_NoInputRejected ==
    \A i \in DOMAIN slots :
        (Posted(slots[i]) /\ NoInput(slots[i].req.body)) =>
            /\ slots[i].pc = "done"
            /\ slots[i].fetches = 0
            /\ slots[i].res.status = 400
            /\ Truthy(Prop(slots[i].res.body, "error"))

\* C6 as claimed: whenever the upstream call returns a non-2xx status the
\* response is 502 with body {error, details}, details being the raw
\* upstream response text; the pending Set-Cookie is attached when the
\* variant was newly assigned in this request; and no second upstream call
\* is made.
C6_UpstreamFailureRelayed ==
    \A i \in DOMAIN slots :
        UpstreamFailed(slots[i]) => (Relayed(slots[i]) /\ slots[i].fetches = 1)

\* C6 as amended: whenever the upstream call returns a non-2xx status and
\* the text of its response is read, the response is that 502 with the
\* pending Set-Cookie; when reading the text fails the response is the
\* generic 500 without Set-Cookie; either way no second upstream call is
\* made.
C6_UpstreamFailureRelayedWhenRead ==
    \A i \in DOMAIN slots :
        UpstreamFailed(slots[i]) =>
            /\ slots[i].fetches = 1
            /\ ~slots[i].outcome.body.lost => Relayed(slots[i])
            /\ slots[i].outcome.body.lost => slots[i].res = ServerError

\* C6 witness: a request without a cookie went upstream, the call returned
\* 429, its text was read, and the 502 response carries the cookie of the
\* id just assigned.
C6_Witness ==
    \E i \in DOMAIN slots :
        /\ UpstreamFailed(slots[i])
        /\ slots[i].req.cookie = Undefined
        /\ slots[i].outcome.status = 429
        /\ ~slots[i].outcome.body.lost
        /\ slots[i].res.status = 502
        /\ CookieNames(slots[i].res.setCookie, slots[i].version)

\* C7: whenever the upstream call succeeds (2xx, well-formed JSON) but the
\* response carries no completion text (choices missing or empty, first
\* choice without message or content, or content null or the empty string)
\* the response is 200 with reply equal to the fixed fallback string;
\* otherwise reply equals choices[0].message.content.
C7_FallbackWhenNoText ==
    \A i \in DOMAIN slots :
        UpstreamSucceeded(slots[i]) =>
            /\ slots[i].res.status = 200
            /\ Prop(slots[i].res.body, "reply") =
                   IF CompletionText(slots[i].outcome.body.v)
                          \in {Undefined, Null, Str(<<>>)}
                   THEN Fallback
                   ELSE CompletionText(slots[i].outcome.body.v)

\* C8: a Set-Cookie header the handler emits consists of exactly the pair
\* cefr_version=<id>, id in {1,2,3,4}, followed by exactly the attributes
\* Path=/, Max-Age=3600, SameSite=Lax and Secure, in that order.
C8_SetCookieAttributes ==
    \A i \in DOMAIN slots :
        slots[i].res.setCookie # <<>> =>
            \E k \in VersionIds :
                slots[i].res.setCookie =
                    << Named(NumberToString(k)),
                       "Path=/", "Max-Age=3600", "SameSite=Lax", "Secure" >>

\* C9: whatever the Cookie header holds (empty segments, segments without
\* "=", values that are not valid URL-encoding), cookie parsing never fails
\* the request: variant resolution completes with an id in {1,2,3,4}.
C9_CookieParsingNeverFails ==
    \A i \in DOMAIN slots :
        Posted(slots[i]) => slots[i].version \in VersionIds

\* C10: the handler answers from the static cache, without an upstream
\* call, only if the lower-cased, trimmed latest utterance is one of the
\* cache's own trigger phrases.
C10_CacheExactMatchOnly ==
    \A i \in DOMAIN slots :
        (Posted(slots[i]) /\ slots[i].pc = "done" /\ slots[i].fetches = 0
         /\ slots[i].res.status = 200) =>
            HitsCache(slots[i].req.body)

(***************************************************************************)
(* Properties of a session (SessionSpec).                                  *)
(***************************************************************************)
\* The id a stored cookie names, 0 when it names none.
JarId(cookie) ==
    IF \E k \in VersionIds : cookie = Str(Named(NumberToString(k)))
    THEN CHOOSE k \in VersionIds : cookie = Str(Named(NumberToString(k)))
    ELSE 0

\* Every request sent with a stored cookie resolves the id that cookie names
\* and sets no cookie.
SentWithCookieReuses ==
    \A i \in DOMAIN slots :
        (slots[i].pc # "idle" /\ slots[i].req.cookie # Undefined) =>
            /\ slots[i].version \in VersionIds
            /\ slots[i].version = JarId(slots[i].req.cookie)
            /\ slots[i].setCookieHeader = <<>>
            /\ slots[i].res.setCookie = <<>>

\* The client holds a cookie and none of its requests sent without one is
\* still outstanding.
JarSettled ==
    /\ jar # Undefined
    /\ \A i \in DOMAIN slots :
           slots[i].pc # "idle" => slots[i].req.cookie # Undefined

\* C3 as claimed: the variant is selected once and never recomputed: every
\* request of the session that resolves a variant resolves the same id,
\* also after a 400 or 500 response and with several requests in flight.
C3_VariantSelectedOnce ==
    \A i \in DOMAIN slots :
        (slots[i].pc # "idle" /\ slots[i].version # 0) =>
            slots[i].version = firstVariant

\* C3 as amended: a request sent with the stored cookie resolves exactly the
\* id that cookie names and sets no cookie, so the stored id stays what it
\* is from the moment the client holds a cookie and none of its cookie-less
\* requests is outstanding.
C3_StoredVariantKept ==
    [][SentWithCookieReuses' /\ (JarSettled => jar' = jar)]_vars

\* C3 witness: a request sent with the stored cookie was answered 200 with
\* the stored id, which is not the id the session's first request resolved.
C3_Witness ==
    \E i \in DOMAIN slots :
        /\ slots[i].pc = "done"
        /\ slots[i].req.cookie = jar /\ jar # Undefined
        /\ slots[i].version = JarId(jar)
        /\ slots[i].res.status = 200
        /\ firstVariant # slots[i].version

====
